---------------------------- MODULE Spec2Model ----------------------------
(***************************************************************************)
(* A model of confluenpy: the markdown-to-wiki-markup converter            *)
(* (confluenpy/markdown.py) and the page content model                     *)
(* (confluenpy/content.py).                                                *)
(*                                                                         *)
(* A line of text is a sequence of pieces.  Every piece of an input line   *)
(* is one character, so the regular expressions of the converter are       *)
(* modelled position by position.  The fixed literals that the macros      *)
(* emit ("{code:title=", "|theme=", ...) are single pieces: no regular     *)
(* expression of the program is ever applied to them.                      *)
(***************************************************************************)
EXTENDS Integers, Sequences, FiniteSets

(***************************************************************************)
(* Bounds of the model.                                                    *)
(***************************************************************************)
MaxLines == 4
MaxRuns == 2
MaxRunLines == 3
MaxDocLen == 2
MaxPathLen == 2
MaxLevel == 1
MaxParts == 3
MaxCalls == 1

(***************************************************************************)
(* Helpers on sequences (Python str / list primitives).                    *)
(***************************************************************************)
Take(s, n) == SubSeq(s, 1, n)

Drop(s, n) == SubSeq(s, n + 1, Len(s))

\* s[i:].startswith(p), i counted from 1
MatchAt(s, i, p) ==
    /\ i >= 1
    /\ i + Len(p) - 1 <= Len(s)
    /\ SubSeq(s, i, i + Len(p) - 1) = p

StartsWith(s, p) == MatchAt(s, 1, p)

IsPrefix(s, t) == Len(s) <= Len(t) /\ Take(t, Len(s)) = s

SetMin(S) == CHOOSE x \in S : \A y \in S : x <= y

SetMax(S) == CHOOSE x \in S : \A y \in S : y <= x

RECURSIVE Repeat(_, _)
Repeat(c, n) == IF n = 0 THEN <<>> ELSE <<c>> \o Repeat(c, n - 1)

RECURSIVE Concat(_)
Concat(ss) == IF ss = <<>> THEN <<>> ELSE Head(ss) \o Concat(Tail(ss))

\* sep.join(ss)
RECURSIVE Join(_, _)
Join(sep, ss) ==
    IF ss = <<>> THEN <<>>
    ELSE IF Len(ss) = 1 THEN Head(ss)
    ELSE Head(ss) \o sep \o Join(sep, Tail(ss))

\* The piece that stands for the one character U+0060 (the backquote), which
\* cannot be written inside a TLA+ string.
Backtick == "BQ"

Fence == <<Backtick, Backtick, Backtick>>

Whitespace == {" ", "\t"}

DigitChars == <<"0", "1", "2", "3", "4", "5", "6", "7", "8", "9">>

IsDigit(c) == \E d \in 1..10 : DigitChars[d] = c

DigitValue(c) == (CHOOSE d \in 1..10 : DigitChars[d] = c) - 1

\* str(n) for a non-negative integer
RECURSIVE PyInt(_)
PyInt(n) ==
    IF n < 10 THEN <<DigitChars[n + 1]>>
    ELSE PyInt(n \div 10) \o <<DigitChars[(n % 10) + 1]>>

\* int(s) for a string of decimal digits
RECURSIVE ParseInt(_)
ParseInt(s) ==
    IF s = <<>> THEN 0
    ELSE 10 * ParseInt(Take(s, Len(s) - 1)) + DigitValue(s[Len(s)])

\* str(b) for a bool
PyBool(b) == IF b THEN <<"True">> ELSE <<"False">>

\* re.sub(pat, rep, s) for a literal pattern; also str.replace
RECURSIVE ReplaceAll(_, _, _)
ReplaceAll(s, pat, rep) ==
    IF s = <<>> THEN <<>>
    ELSE IF StartsWith(s, pat) THEN rep \o ReplaceAll(Drop(s, Len(pat)), pat, rep)
    ELSE <<Head(s)>> \o ReplaceAll(Tail(s), pat, rep)

\* str.strip()
RECURSIVE LStrip(_)
LStrip(s) == IF s # <<>> /\ Head(s) \in Whitespace THEN LStrip(Tail(s)) ELSE s

RECURSIVE RStrip(_)
RStrip(s) ==
    IF s # <<>> /\ s[Len(s)] \in Whitespace THEN RStrip(Take(s, Len(s) - 1)) ELSE s

Strip(s) == RStrip(LStrip(s))

(***************************************************************************)
(* MarkdownToConfluenceConverter: the rewrite rules.                       *)
(***************************************************************************)
is_block_code(text) == StartsWith(text, Fence)

placeholder ==
    <<"T", "R", "I", "P", "L", "E", "B", "A", "C", "K", "T", "I", "C", "K">>

\* The single-backtick substitution of convert_emphasis: the leftmost
\* backtick that has a later backtick pairs with the next one.
RECURSIVE SubSingleBackticks(_)
SubSingleBackticks(s) ==
    IF s = <<>> THEN <<>>
    ELSE LET later == {j \in 2..Len(s) : s[j] = Backtick} IN
         IF Head(s) = Backtick /\ later # {}
         THEN LET j == SetMin(later) IN
              <<"_">> \o SubSeq(s, 2, j - 1) \o <<"_">> \o SubSingleBackticks(Drop(s, j))
         ELSE <<Head(s)>> \o SubSingleBackticks(Tail(s))

convert_emphasis(text) ==
    LET text_with_placeholder == ReplaceAll(text, Fence, placeholder)
        text_transformed == SubSingleBackticks(text_with_placeholder)
    IN  ReplaceAll(text_transformed, placeholder, Fence)

convert_link(text) ==
    LET closers == {m \in 1..Len(text) : text[m] = ")"}
        M == SetMax(closers)
        \* "](" at j with the last ")" after it
        mids == {j \in 1..Len(text) : MatchAt(text, j, <<"]", "(">>) /\ j + 2 <= M}
        opens == {i \in 1..Len(text) : text[i] = "[" /\ \E j \in mids : i < j}
    IN  IF closers = {} \/ opens = {} THEN text
        ELSE LET i == SetMin(opens)
                 j == SetMax(mids)
             IN  Take(text, i - 1)
                 \o <<"[">> \o SubSeq(text, i + 1, j - 1)
                 \o <<"|">> \o SubSeq(text, j + 2, M - 1)
                 \o <<"]">> \o Drop(text, M)

RECURSIVE LeadingCount(_, _)
LeadingCount(s, S) ==
    IF s # <<>> /\ Head(s) \in S THEN 1 + LeadingCount(Tail(s), S) ELSE 0

\* a variant of the header rule that consumes at most one space after the marker run
convert_header_one_space(text) ==
    LET n == LeadingCount(text, {"#"})
        rest == Drop(text, n)
    IN  IF n = 0 THEN text
        ELSE <<"h">> \o PyInt(n) \o <<".", " ">>
             \o (IF StartsWith(rest, <<" ">>) THEN Tail(rest) ELSE rest)

convert_header(text) ==
    LET n == LeadingCount(text, {"#"}) IN
    IF n = 0 THEN text
    ELSE <<"h">> \o PyInt(n) \o <<".", " ">> \o LStrip(Drop(text, n))

simple_list_match(spaces, item) ==
    Repeat("*", (Len(spaces) \div 2) + 1) \o <<" ">> \o item

\* a variant of the numbered-list replacement that ignores the ordinal: depth one
numbered_list_match_depth_one(digits, item) == <<"#", " ">> \o item

numbered_list_match(digits, item) ==
    Repeat("#", ParseInt(digits)) \o <<" ">> \o item

convert_list(text) ==
    LET w == LeadingCount(text, Whitespace)
        simple ==
            IF /\ w + 2 <= Len(text)
               /\ text[w + 1] \in {"-", "*"}
               /\ text[w + 2] = " "
            THEN simple_list_match(Take(text, w), Drop(text, w + 2))
            ELSE text
        d == LeadingCount(simple, {DigitChars[k] : k \in 1..10})
    IN  IF d >= 1 /\ MatchAt(simple, d + 1, <<".", " ">>)
        THEN numbered_list_match(Take(simple, d), Drop(simple, d + 2))
        ELSE simple

(***************************************************************************)
(* convert_image.  The environment decides which targets validators.url    *)
(* accepts and which paths exist on the local file system.                 *)
(***************************************************************************)
\* image_width = None.  The program reads image_width only through its truth
\* value (line 87), so None and 0 are one value of the model.
None == 0

HttpHost == <<"h", "t", "t", "p", ":", "/", "/", "h", "/">>

XPng == <<"x", ".", "p", "n", "g">>

YPng == <<"y", ".", "p", "n", "g">>

DirXPng == <<"d", "/">> \o XPng

\* the targets validators.url accepts
ValidUrls == {HttpHost \o XPng, HttpHost \o YPng}

\* the files of the local file system
ExistingFiles == {XPng, YPng, DirXPng}

validators_url(url) == url \in ValidUrls

\* Path(url).exists(): Path("") is the current directory, which exists
PathExists(url) == url = <<>> \/ url \in ExistingFiles

\* Path(url).name: the part after the last "/"
PathName(url) ==
    LET slashes == {k \in 1..Len(url) : url[k] = "/"} IN
    IF slashes = {} THEN url ELSE Drop(url, SetMax(slashes))

Extensions ==
    { <<"j", "p", "g">>, <<"j", "p", "e", "g">>, <<"p", "n", "g">>,
      <<"g", "i", "f">>, <<"b", "m", "p">>, <<"s", "v", "g">> }

\* first ")" at or after position p, 0 when there is none
FirstCloser(s, p) ==
    LET ms == {m \in p..Len(s) : s[m] = ")"} IN
    IF ms = {} THEN 0 ELSE SetMin(ms)

\* where ".ext" followed by any run without ")" and then ")" can start, from g on
ExtStarts(s, g) ==
    {k \in g..Len(s) :
        /\ s[k] = "."
        /\ \E e \in Extensions :
              MatchAt(s, k + 1, e) /\ FirstCloser(s, k + 1 + Len(e)) # 0}

\* match_regex tried at position i: "![", a lazy title, "](", then the
\* optional greedy group ".*.ext[^)]*" and ")".  found = FALSE when it fails.
ImageMatchAt(s, i) ==
    LET RestOK(g) == ExtStarts(s, g) # {} \/ MatchAt(s, g, <<")">>)
        js == {j \in (i + 2)..Len(s) : MatchAt(s, j, <<"]", "(">>) /\ RestOK(j + 2)}
    IN  IF ~MatchAt(s, i, <<"!", "[">>) \/ js = {}
        THEN [found |-> FALSE, end |-> 0, title |-> <<>>, url |-> <<>>]
        ELSE LET j == SetMin(js)
                 g == j + 2
                 ks == ExtStarts(s, g)
             IN  IF ks # {}
                 THEN LET k == SetMax(ks)
                          e == CHOOSE x \in Extensions : MatchAt(s, k + 1, x)
                          m == FirstCloser(s, k + 1 + Len(e))
                      IN  [found |-> TRUE, end |-> m,
                           title |-> SubSeq(s, i + 2, j - 1),
                           url |-> SubSeq(s, g, m - 1)]
                 ELSE [found |-> TRUE, end |-> g,
                       title |-> SubSeq(s, i + 2, j - 1), url |-> <<>>]

\* re.findall(match_regex, text), scanning from position i
RECURSIVE ImageFindAll(_, _)
ImageFindAll(s, i) ==
    IF i > Len(s) THEN <<>>
    ELSE LET m == ImageMatchAt(s, i) IN
         IF m.found THEN <<m>> \o ImageFindAll(s, m.end + 1)
         ELSE ImageFindAll(s, i + 1)

\* re.sub(match_regex, rep, text), scanning from position i
RECURSIVE ImageSub(_, _, _)
ImageSub(s, rep, i) ==
    IF i > Len(s) THEN <<>>
    ELSE LET m == ImageMatchAt(s, i) IN
         IF m.found THEN rep \o ImageSub(s, rep, m.end + 1)
         ELSE <<s[i]>> \o ImageSub(s, rep, i + 1)

WidthSuffix(image_width) ==
    <<"|", "w", "i", "d", "t", "h", "=">> \o PyInt(image_width) \o <<"!">>

\* one iteration of the loop over the matches; st = [text, uploads, log]
\* a variant of the loop body without the Path(url).exists() test: whatever is not
\* a valid URL is taken for a local file
ImageStepNoExistsTest(st, url, image_width) ==
    IF validators_url(url)
    THEN [st EXCEPT !.text = ImageSub(st.text, <<"!">> \o url \o <<"!">>, 1)]
    ELSE [text |-> ImageSub(st.text, <<"!">> \o PathName(url) \o <<"!">>, 1),
          uploads |-> Append(st.uploads, url),
          log |-> Append(st.log, [level |-> "WARNING", what |-> "Local image detected", ref |-> url])]

ImageStep(st, url, image_width) ==
    IF validators_url(url)
    THEN [st EXCEPT !.text = ImageSub(st.text, <<"!">> \o url \o <<"!">>, 1)]
    ELSE IF PathExists(url)
    THEN LET replaced == ImageSub(st.text, <<"!">> \o PathName(url) \o <<"!">>, 1)
             sized == IF image_width # None
                      THEN Take(replaced, Len(replaced) - 1) \o WidthSuffix(image_width)
                      ELSE replaced
         IN  [text |-> sized,
              uploads |-> Append(st.uploads, url),
              log |-> Append(st.log, [level |-> "WARNING", what |-> "Local image detected", ref |-> url])]
    ELSE [st EXCEPT !.log = Append(st.log, [level |-> "ERROR", what |-> "Invalid URL", ref |-> url])]

RECURSIVE ImageLoop(_, _, _)
ImageLoop(matches, st, image_width) ==
    IF matches = <<>> THEN st
    ELSE ImageLoop(Tail(matches), ImageStep(st, Head(matches).url, image_width), image_width)

\* the returned text, with the uploads appended to local_images_to_be_uploaded
\* and the records logged
convert_image(text, image_width) ==
    ImageLoop(ImageFindAll(text, 1), [text |-> text, uploads |-> <<>>, log |-> <<>>], image_width)

(***************************************************************************)
(* MacrosMixin and PageContent: the line each operation appends, and the   *)
(* section extraction.  Each literal run of a format string is one piece.   *)
(***************************************************************************)
\* the line toc appends; exclude / include = <<>> stands for None or ""
toc(printable, style, max_level, indent, min_level, _class, exclude, include, _type, outline) ==
    LET exclude_str == IF exclude # <<>> THEN <<"|exclude=">> \o exclude ELSE <<>>
        include_str == IF include # <<>> THEN <<"|include=">> \o include ELSE <<>>
    IN  <<"{toc:printable=">> \o PyBool(printable) \o <<"|style=">> \o style
        \o <<"|maxLevel=">> \o PyInt(max_level) \o <<"|indent=">> \o indent
        \o <<"|minLevel=">> \o PyInt(min_level) \o <<"|class=">> \o _class \o exclude_str
        \o <<"|type=">> \o _type \o <<"|outline=">> \o PyBool(outline) \o <<"|">>
        \o include_str \o <<"}">>

\* the line code_block appends
code_block(title, content, theme, linenumbers, language, firstline, collapse) ==
    <<"{code:title=">> \o title \o <<"|theme=">> \o theme
    \o <<"|linenumbers=">> \o PyBool(linenumbers)
    \o <<"|language=">> \o language \o <<"|firstline=">> \o PyInt(firstline)
    \o <<"|collapse=">> \o PyBool(collapse) \o <<"}">>
    \o content \o <<"{code}">>

\* the defaults of code_block's signature
DefaultTheme == <<"Default">>

DefaultLinenumbers == FALSE

DefaultFirstline == 1

DefaultCollapse == FALSE

\* the line heading appends; heading is "h1" .. "h6"
heading(heading_, text) == heading_ \o <<".", " ">> \o text

\* the line horizontal_rule appends
horizontal_rule == <<"-", "-", "-", "-">>

\* the line image appends; an argument <<>> stands for None (or any falsy value)
image(url, title, align, width) ==
    LET title_ == IF title # <<>> THEN <<"title=">> \o title ELSE <<>>
        align_ == IF align # <<>> THEN <<", align=">> \o align ELSE <<>>
        width_ == IF width # None THEN <<", width=">> \o PyInt(width) ELSE <<>>
    IN  <<"!">> \o url \o <<"|">> \o title_ \o align_ \o width_ \o <<"!">>

\* the for loop of divide_into_sections
RECURSIVE DivideLoop(_, _, _, _)
DivideLoop(cnt, level, sections, section_) ==
    IF cnt = <<>> THEN Append(sections, section_)
    ELSE LET line_ == Head(cnt) IN
         IF StartsWith(line_, <<"h">> \o PyInt(level + 1))
         THEN DivideLoop(Tail(cnt), level, Append(sections, section_), <<line_>>)
         ELSE DivideLoop(Tail(cnt), level, sections, Append(section_, line_))

divide_into_sections(content_, level) == DivideLoop(content_, level, <<>>, <<>>)

\* list[i] of Python: a negative index counts from the end
PyIndexOk(list, i) == -Len(list) <= i /\ i < Len(list)

PyIndex(list, i) == IF i >= 0 THEN list[i + 1] ELSE list[Len(list) + i + 1]

\* the loop of section over enumerate(section_number); an int is a one-index path
RECURSIVE SectionLoop(_, _, _)
SectionLoop(lines_, section_number, level) ==
    IF section_number = <<>> THEN [raised |-> "", lines |-> lines_]
    ELSE LET groups == divide_into_sections(lines_, level)
             i == Head(section_number)
         IN  IF PyIndexOk(groups, i)
             THEN SectionLoop(PyIndex(groups, i), Tail(section_number), level + 1)
             ELSE [raised |-> "IndexError", lines |-> <<>>]

section(content_, section_number) == SectionLoop(content_, section_number, 0)

\* "\n".join(self.content)
render(content_) == Join(<<"\n">>, content_)

(***************************************************************************)
(* The state.                                                              *)
(***************************************************************************)
VARIABLES
    local_images_to_be_uploaded,  \* the class attribute of the converter
    pc,            \* where the running call is: idle, for, while, returned, raised
    markdown,      \* markdown_text.split("\n") of the running convert
    pos,           \* how many of its lines the iterator "lines" has yielded
    image_width,   \* the argument of the running convert
    content,       \* the line buffer of the PageContent at hand
    line,          \* convert's local "line"
    language,      \* convert's local "language"
    code_content,  \* convert's local "code_content"
    log,           \* the records logged by the running call
    runs,          \* how many calls have been started
    op,            \* the last call made by the caller: its name and arguments
    ret,           \* what the last call returned or raised
    h_start,       \* history: the index in markdown of the last fence-start line
    h_queue        \* history: the upload queue when the running convert started

vars ==
    <<local_images_to_be_uploaded, pc, markdown, pos, image_width, content, line,
      language, code_content, log, runs, op, ret, h_start, h_queue>>

convertVars ==
    <<pc, markdown, pos, image_width, line, language, code_content, h_start, h_queue>>

NoOp == [name |-> "none"]

NoRet == [raised |-> "", value |-> <<>>]

Init ==
    /\ local_images_to_be_uploaded = <<>>
    /\ pc = "idle"
    /\ markdown = <<>>
    /\ pos = 0
    /\ image_width = None
    /\ content = <<>>
    /\ line = <<>>
    /\ language = <<>>
    /\ code_content = <<>>
    /\ log = <<>>
    /\ runs = 0
    /\ op = NoOp
    /\ ret = NoRet
    /\ h_start = 0
    /\ h_queue = <<>>

(***************************************************************************)
(* MarkdownToConfluenceConverter.convert, one action per step of its       *)
(* loops.  pc = "for": at the head of the for loop (the scanner is         *)
(* outside a code block); pc = "while": at the test of the while loop (the *)
(* scanner is accumulating); pc = "returned": convert returned content;    *)
(* pc = "raised": the StopIteration of next(lines) left convert.           *)
(***************************************************************************)
\* the five rewrites of the loop body, in the order of the code
Rewrite(raw, width) ==
    LET emphasised == convert_emphasis(raw)
        img == convert_image(emphasised, width)
        linked == convert_link(img.text)
        headed == convert_header(linked)
    IN  [text |-> convert_list(headed), uploads |-> img.uploads, log |-> img.log]

\* convert is called: a new PageContent, an iterator over the lines
ConvertCall(md, width) ==
    /\ pc \in {"idle", "returned", "raised"}
    /\ markdown' = md
    /\ image_width' = width
    /\ pos' = 0
    /\ content' = <<>>
    /\ pc' = "for"
    /\ log' = <<>>
    /\ runs' = runs + 1
    /\ op' = [name |-> "convert"]
    /\ ret' = NoRet
    /\ h_queue' = local_images_to_be_uploaded
    /\ UNCHANGED <<local_images_to_be_uploaded, line, language, code_content, h_start>>

\* the for loop takes a line that, rewritten, is no fence: it is appended as text
ForText ==
    /\ pc = "for"
    /\ pos < Len(markdown)
    /\ \E r \in {Rewrite(markdown[pos + 1], image_width)} :
       /\ ~is_block_code(r.text)
       /\ line' = r.text
       /\ local_images_to_be_uploaded' = local_images_to_be_uploaded \o r.uploads
       /\ log' = log \o r.log
       /\ content' = Append(content, r.text)
       /\ pos' = pos + 1
    /\ UNCHANGED <<pc, markdown, image_width, language, code_content, runs, op, ret,
                   h_start, h_queue>>

\* the for loop takes a line that, rewritten, starts with the fence: the language
\* is captured and next(lines) moves to the first line of the block
ForFence ==
    /\ pc = "for"
    /\ pos < Len(markdown)
    /\ \E r \in {Rewrite(markdown[pos + 1], image_width)} :
       /\ is_block_code(r.text)
       /\ local_images_to_be_uploaded' = local_images_to_be_uploaded \o r.uploads
       /\ log' = log \o r.log
       /\ language' = Strip(ReplaceAll(r.text, Fence, <<>>))
       /\ code_content' = <<>>
       /\ h_start' = pos + 1
       /\ IF pos + 1 < Len(markdown)
          THEN /\ line' = markdown[pos + 2]
               /\ pos' = pos + 2
               /\ pc' = "while"
               /\ ret' = ret
          ELSE /\ line' = r.text
               /\ pos' = pos + 1
               /\ pc' = "raised"
               /\ ret' = [raised |-> "StopIteration", value |-> <<>>]
    /\ UNCHANGED <<markdown, image_width, content, runs, op, h_queue>>

\* a variant of the while body that applies the rewrite rules to the body line
WhileBodyRewrites ==
    /\ pc = "while"
    /\ ~is_block_code(line)
    /\ code_content' = Append(code_content, Rewrite(line, image_width).text)
    /\ IF pos < Len(markdown)
       THEN /\ line' = markdown[pos + 1]
            /\ pos' = pos + 1
            /\ pc' = "while"
            /\ ret' = ret
       ELSE /\ pc' = "raised"
            /\ ret' = [raised |-> "StopIteration", value |-> <<>>]
            /\ UNCHANGED <<line, pos>>
    /\ UNCHANGED <<local_images_to_be_uploaded, markdown, image_width, content, language,
                   log, runs, op, h_start, h_queue>>

\* the while loop finds a line that is no fence: it is accumulated unrewritten and
\* next(lines) moves on
WhileBody ==
    /\ pc = "while"
    /\ ~is_block_code(line)
    /\ code_content' = Append(code_content, line)
    /\ IF pos < Len(markdown)
       THEN /\ line' = markdown[pos + 1]
            /\ pos' = pos + 1
            /\ pc' = "while"
            /\ ret' = ret
       ELSE /\ pc' = "raised"
            /\ ret' = [raised |-> "StopIteration", value |-> <<>>]
            /\ UNCHANGED <<line, pos>>
    /\ UNCHANGED <<local_images_to_be_uploaded, markdown, image_width, content, language,
                   log, runs, op, h_start, h_queue>>

\* the while loop finds the closing fence: the block is emitted as one line
WhileExit ==
    /\ pc = "while"
    /\ is_block_code(line)
    /\ content' = Append(content,
                         code_block(<<>>, Join(<<"\n">>, code_content), DefaultTheme,
                                    DefaultLinenumbers, language, DefaultFirstline,
                                    DefaultCollapse))
    /\ pc' = "for"
    /\ UNCHANGED <<local_images_to_be_uploaded, markdown, pos, image_width, line, language,
                   code_content, log, runs, op, ret, h_start, h_queue>>

\* the iterator is exhausted at the head of the for loop: convert returns
ForEnd ==
    /\ pc = "for"
    /\ pos = Len(markdown)
    /\ pc' = "returned"
    /\ ret' = [raised |-> "", value |-> content]
    /\ UNCHANGED <<local_images_to_be_uploaded, markdown, pos, image_width, content, line,
                   language, code_content, log, runs, op, h_start, h_queue>>

ConvertStep == ForText \/ ForFence \/ WhileBody \/ WhileExit \/ ForEnd

(***************************************************************************)
(* The inputs of the model.                                                *)
(***************************************************************************)
\* the markdown image form ![alt](target)
Img(alt, target) == <<"!", "[">> \o alt \o <<"]", "(">> \o target \o <<")">>

ZPng == <<"z", ".", "p", "n", "g">>

TextLine == <<"a">>

HeaderLine == <<"#", " ", Backtick, "c", Backtick>>

FencePy == Fence \o <<"p", "y">>

LocalImg == Img(<<"a">>, XPng)

LocalImgTail == Img(<<"c">>, DirXPng) \o <<" ", "t">>

LocalAndEmptyImg == Img(<<"a">>, XPng) \o <<" ">> \o Img(<<"f">>, <<>>)

BadImg == Img(<<"e">>, ZPng)

UrlImg == Img(<<"u">>, HttpHost \o XPng)

Vocabulary ==
    {TextLine, HeaderLine, FencePy, Fence, LocalImg, LocalImgTail, LocalAndEmptyImg,
     BadImg, UrlImg}

\* the lists str.split gives: at least one line
SeqsUpTo(S, n) == UNION {[1..k -> S] : k \in 1..n}

Markdowns == SeqsUpTo(Vocabulary, MaxLines)

Widths == {None, 50}

(***************************************************************************)
(* Spec: one convert call in a fresh process.                              *)
(***************************************************************************)
Convert ==
    /\ runs = 0
    /\ \E md \in Markdowns, width \in Widths : ConvertCall(md, width)

Next == Convert \/ ForText \/ ForFence \/ WhileBody \/ WhileExit \/ ForEnd

Spec == Init /\ [][Next]_vars

(***************************************************************************)
(* SpecRuns: convert called again and again in one process.                *)
(***************************************************************************)
RunVocabulary == {TextLine, Fence, LocalImg, LocalImgTail}

RunMarkdowns == SeqsUpTo(RunVocabulary, MaxRunLines)

ConvertAgain ==
    /\ runs < MaxRuns
    /\ \E md \in RunMarkdowns, width \in Widths : ConvertCall(md, width)

NextRuns == ConvertAgain \/ ForText \/ ForFence \/ WhileBody \/ WhileExit \/ ForEnd

SpecRuns == Init /\ [][NextRuns]_vars

(***************************************************************************)
(* SpecDoc: a caller builds a PageContent through its operations and       *)
(* queries it.                                                             *)
(***************************************************************************)
\* a line of text that begins with the characters h1 and is no heading
H1Text == <<"h", "1", "n", "1">>

Title == <<"T">>

HeadingNames == {<<"h", "1">>, <<"h", "2">>}

OtherContent == <<heading(<<"h", "1">>, Title), TextLine>>

\* section_number: an int (a one-index path) or a tuple of ints
Indices == -1..2

Paths == UNION {[1..k -> Indices] : k \in 1..MaxPathLen}

Levels == 0..MaxLevel

\* an operation that appends new_lines to self.content
Appends(name, new_lines) ==
    /\ pc = "idle"
    /\ Len(content) + Len(new_lines) <= MaxDocLen
    /\ content' = content \o new_lines
    /\ op' = [name |-> name]
    /\ ret' = NoRet
    /\ UNCHANGED <<local_images_to_be_uploaded, log, runs>>
    /\ UNCHANGED convertVars

\* an operation that returns a value (or raises) and assigns nothing
Returns(call, result) ==
    /\ pc = "idle"
    /\ op' = call
    /\ ret' = result
    /\ UNCHANGED <<local_images_to_be_uploaded, content, log, runs>>
    /\ UNCHANGED convertVars

DocAppend == \E c \in {TextLine, H1Text} : Appends("append", <<c>>)

DocText == Appends("text", <<TextLine>>)

DocExtend == \E other \in {content, OtherContent} : Appends("extend", other)

\* a variant of heading that puts the heading in front of the buffer
DocHeadingInFront ==
    /\ pc = "idle"
    /\ Len(content) < MaxDocLen
    /\ \E h \in HeadingNames : content' = <<heading(h, Title)>> \o content
    /\ op' = [name |-> "heading"]
    /\ ret' = NoRet
    /\ UNCHANGED <<local_images_to_be_uploaded, log, runs>>
    /\ UNCHANGED convertVars

DocHeading == \E h \in HeadingNames : Appends("heading", <<heading(h, Title)>>)

DocHorizontalRule == Appends("horizontal_rule", <<horizontal_rule>>)

DocImage == Appends("image", <<image(HttpHost \o XPng, <<>>, <<>>, 50)>>)

DocToc ==
    Appends("toc", <<toc(FALSE, <<"square">>, 4, <<"5px">>, 1, <<"bigpink">>, <<>>, <<>>,
                         <<"list">>, TRUE)>>)

DocCodeBlock ==
    Appends("code_block",
            <<code_block(Title, TextLine, DefaultTheme, DefaultLinenumbers, <<"java">>,
                         DefaultFirstline, DefaultCollapse)>>)

DocDivide ==
    \E level \in Levels :
        Returns([name |-> "divide_into_sections", level |-> level],
                [raised |-> "", value |-> divide_into_sections(content, level)])

DocSection ==
    \E path \in Paths :
        LET r == section(content, path) IN
        Returns([name |-> "section", path |-> path],
                [raised |-> r.raised, value |-> r.lines])

DocRender == Returns([name |-> "render"], [raised |-> "", value |-> render(content)])

NextDoc ==
    \/ DocAppend \/ DocText \/ DocExtend \/ DocHeading \/ DocHorizontalRule
    \/ DocImage \/ DocToc \/ DocCodeBlock \/ DocDivide \/ DocSection \/ DocRender

SpecDoc == Init /\ [][NextDoc]_vars

(***************************************************************************)
(* SpecRules: a caller applies the static rewrite rules to single lines.   *)
(* A line is drawn as a sequence of parts: pieces of plain text and image  *)
(* forms.                                                                  *)
(***************************************************************************)
TextPart(s) == [kind |-> "text", s |-> s, alt |-> <<>>, target |-> <<>>]

ImgPart(alt, target) == [kind |-> "img", s |-> Img(alt, target), alt |-> alt, target |-> target]

Parts ==
    { TextPart(<<"t">>), TextPart(<<" ">>),
      ImgPart(<<"a">>, XPng), ImgPart(<<"c">>, DirXPng),
      ImgPart(<<"u">>, HttpHost \o XPng), ImgPart(<<"v">>, HttpHost \o YPng),
      ImgPart(<<"e">>, ZPng) }

PartSeqs == SeqsUpTo(Parts, MaxParts)

RECURSIVE PartsText(_)
PartsText(parts) == IF parts = <<>> THEN <<>> ELSE Head(parts).s \o PartsText(Tail(parts))

CallConvertImage ==
    /\ pc = "idle"
    /\ runs < MaxCalls
    /\ \E parts \in PartSeqs, width \in Widths :
          LET r == convert_image(PartsText(parts), width) IN
          /\ op' = [name |-> "convert_image", parts |-> parts, image_width |-> width]
          /\ ret' = [raised |-> "", value |-> r.text]
          /\ local_images_to_be_uploaded' = local_images_to_be_uploaded \o r.uploads
          /\ log' = r.log
    /\ runs' = runs + 1
    /\ UNCHANGED content
    /\ UNCHANGED convertVars

NextRules == CallConvertImage

SpecRules == Init /\ [][NextRules]_vars

(***************************************************************************)
(* SpecText: the link, header and list rules called on single lines.       *)
(***************************************************************************)
MaxLinkParts == 3

LinkPart(label, target) ==
    [kind |-> "link", s |-> <<"[">> \o label \o <<"]", "(">> \o target \o <<")">>,
     alt |-> label, target |-> target]

LinkParts ==
    { TextPart(<<"x">>), TextPart(<<" ">>),
      LinkPart(<<"L", "i", "n", "k">>, <<"l", "i", "n", "k">>),
      LinkPart(<<"c">>, <<"d">>) }

LinkPartSeqs == SeqsUpTo(LinkParts, MaxLinkParts)

\* a call of a rule: it returns a value and assigns nothing
CallsRule(call, value) ==
    /\ pc = "idle"
    /\ runs < MaxCalls
    /\ op' = call
    /\ ret' = [raised |-> "", value |-> value]
    /\ runs' = runs + 1
    /\ UNCHANGED <<local_images_to_be_uploaded, content, log>>
    /\ UNCHANGED convertVars

CallConvertLink ==
    \E parts \in LinkPartSeqs :
        CallsRule([name |-> "convert_link", parts |-> parts],
                  convert_link(PartsText(parts)))

MaxHashes == 6

\* whitespace between the one space after the marker run and the rest of the text
Leads == {<<>>, <<" ">>, <<"\t">>}

\* header texts that do not begin with whitespace
HeaderBodies == {<<>>, <<"x">>, <<"H", " ", "#", "#">>, <<"#", "x">>}

\* lines that do not begin with the marker
UnmarkedLines == {<<>>, <<"x">>, <<" ", "#", " ", "x">>, <<"a", " ", "#">>}

HeaderLineOf(n, lead, body) == Repeat("#", n) \o <<" ">> \o lead \o body

CallConvertHeader ==
    \/ \E n \in 1..MaxHashes, lead \in Leads, body \in HeaderBodies :
          CallsRule([name |-> "convert_header", n |-> n, lead |-> lead, body |-> body,
                     text |-> HeaderLineOf(n, lead, body)],
                    convert_header(HeaderLineOf(n, lead, body)))
    \/ \E text \in UnmarkedLines :
          CallsRule([name |-> "convert_header", n |-> 0, lead |-> <<>>, body |-> text,
                     text |-> text],
                    convert_header(text))

MaxOrdinal == 10

\* the ways the model writes the ordinal n: str(n), and str(n) with a leading zero
OrdinalForms(n) == {PyInt(n), <<"0">> \o PyInt(n)}

ListItems == {<<>>, <<"e">>, <<"-", " ", "e">>, <<"e", " ", "2", ".", " ">>}

\* lines the numbered-list pattern does not match
OtherListLines ==
    { <<"-", " ", "e">>, <<" ", " ", "-", " ", "e">>, <<"*", " ", "*", "e", "*">>,
      <<"1", ".", "e">>, <<" ", "1", ".", " ", "e">>, <<"e">> }

CallConvertList ==
    \/ \E n \in 0..MaxOrdinal, item \in ListItems :
          \E digits \in OrdinalForms(n) :
             CallsRule([name |-> "convert_list", ordered |-> TRUE, n |-> n,
                        digits |-> digits, item |-> item,
                        text |-> digits \o <<".", " ">> \o item],
                       convert_list(digits \o <<".", " ">> \o item))
    \/ \E text \in OtherListLines :
          CallsRule([name |-> "convert_list", ordered |-> FALSE, n |-> 0,
                     digits |-> <<>>, item |-> <<>>, text |-> text],
                    convert_list(text))

NextText == CallConvertLink \/ CallConvertHeader \/ CallConvertList

SpecText == Init /\ [][NextText]_vars

(***************************************************************************)
(* SpecToc: the table-of-contents macro with and without include, exclude. *)
(***************************************************************************)
MaxTocCalls == 2

\* exclude and include: not given (None, falsy) or a regular expression
Filters == {<<>>, <<"[", "1", "/", "/", "2", "]">>}

CallToc ==
    /\ pc = "idle"
    /\ Len(content) < MaxTocCalls
    /\ \E printable \in BOOLEAN, outline \in BOOLEAN, exclude \in Filters, include \in Filters :
          /\ content' = Append(content,
                               toc(printable, <<"square">>, 4, <<"5px">>, 1, <<"bigpink">>,
                                   exclude, include, <<"list">>, outline))
          /\ op' = [name |-> "toc", printable |-> printable, outline |-> outline,
                    exclude |-> exclude, include |-> include]
    /\ ret' = NoRet
    /\ UNCHANGED <<local_images_to_be_uploaded, log, runs>>
    /\ UNCHANGED convertVars

NextToc == CallToc

SpecToc == Init /\ [][NextToc]_vars

(***************************************************************************)
(* SpecFence: convert on lines with fence markers and with the word that    *)
(* convert_emphasis uses as its placeholder.                               *)
(***************************************************************************)
MaxFenceLines == 3

PlaceholderLine == placeholder \o <<"p", "y">>

FenceInside == <<"a", " ">> \o Fence

FenceInList == <<"-", " ">> \o Fence

FenceVocabulary ==
    {TextLine, HeaderLine, Fence, FencePy, PlaceholderLine, FenceInside, FenceInList}

FenceMarkdowns == SeqsUpTo(FenceVocabulary, MaxFenceLines)

ConvertFences ==
    /\ runs = 0
    /\ \E md \in FenceMarkdowns : ConvertCall(md, None)

NextFence == ConvertFences \/ ForText \/ ForFence \/ WhileBody \/ WhileExit \/ ForEnd

SpecFence == Init /\ [][NextFence]_vars

(***************************************************************************)
(* The claims.                                                             *)
(***************************************************************************)
Last(s) == s[Len(s)]

Contains(s, p) == \E i \in 1..Len(s) : MatchAt(s, i, p)

Occurrences(s, p) == Cardinality({i \in 1..Len(s) : MatchAt(s, i, p)})

Logged(records, what) == \E k \in 1..Len(records) : records[k].what = what

\* the next(lines) of this step finds the input exhausted while a block is open
EndOfInputInBlock ==
    \/ /\ pc = "for"
       /\ pos + 1 = Len(markdown)
       /\ is_block_code(Rewrite(markdown[pos + 1], image_width).text)
    \/ /\ pc = "while"
       /\ ~is_block_code(line)
       /\ pos = Len(markdown)

\* C1: when the input ends inside a fenced code block, convert does not raise: it
\* returns a Document whose last line is the code macro of the body accumulated so
\* far, and it logs a warning "Code block not closed properly".
C1_UnclosedBlockEndsGracefully ==
    [][EndOfInputInBlock =>
          /\ pc' = "returned"
          /\ content' # <<>>
          /\ Last(content') =
                code_block(<<>>, Join(<<"\n">>, code_content'), DefaultTheme,
                           DefaultLinenumbers, language', DefaultFirstline, DefaultCollapse)
          /\ Logged(log', "Code block not closed properly")]_vars

\* the language tags of the model's fence-start lines
Tags == {<<>>, <<"p", "y">>}

IsFenceStart(raw) == \E tag \in Tags : raw = Fence \o tag

\* the code macro of the claim, with the defaults written out
CodeMacro(tag, body) ==
    <<"{code:title=", "|theme=", "Default", "|linenumbers=", "False", "|language=">>
    \o tag \o <<"|firstline=", "1", "|collapse=", "False", "}">>
    \o Join(<<"\n">>, body) \o <<"{code}">>

LineRefs(l, b) ==
    Occurrences(l, <<"!">> \o b \o <<"!">>)
    + Occurrences(l, <<"!">> \o b \o <<"|", "w", "i", "d", "t", "h", "=">>)

RECURSIVE BodyRefs(_, _)
BodyRefs(body, b) ==
    IF body = <<>> THEN 0 ELSE LineRefs(Head(body), b) + BodyRefs(Tail(body), b)

QueueEntries(queue, b) == Cardinality({k \in 1..Len(queue) : PathName(queue[k]) = b})

\* what the running convert added to the upload queue
AddedByRun == Drop(local_images_to_be_uploaded, Len(h_queue))

\* C3: after a run, every local image reference written into the body as
\* !<basename>...! has exactly one upload-queue entry of that basename, and the run
\* added no entry whose basename is not in the body.
C3_UploadsMatchBody ==
    pc = "returned" =>
        \A b \in {PathName(f) : f \in ExistingFiles} \cup {PathName(AddedByRun[k]) : k \in 1..Len(AddedByRun)} :
            BodyRefs(content, b) = QueueEntries(AddedByRun, b)

\* C4: the line buffer is append-only: the buffer before an operation is a prefix
\* of the buffer after it, and section, divide_into_sections and render leave it
\* as it is.
C4_AppendOnly ==
    [][/\ IsPrefix(content, content')
       /\ op'.name \in {"section", "divide_into_sections", "render"} => content' = content
       /\ op'.name \in {"append", "text", "heading", "horizontal_rule", "image", "toc",
                        "code_block"} => Len(content') = Len(content) + 1]_vars

C4_Witness == Len(content) >= 2 /\ op.name = "section" /\ ret.raised = "" /\ ret.value # <<>>

\* C5: after any sequence of convert calls the upload queue holds only the files
\* found by the latest run.
C5_QueueOwnedByLatestRun ==
    pc = "returned" => local_images_to_be_uploaded = AddedByRun

\* the image forms the image rule sees in a raw line of convert
ImageRefs(raw) == ImageFindAll(convert_emphasis(raw), 1)

InvalidTarget(url) == ~validators_url(url) /\ ~PathExists(url)

ErrorFor(url) == [level |-> "ERROR", what |-> "Invalid URL", ref |-> url]

\* the for loop is about to take a line that holds an image form with an invalid target
TakesInvalidImage ==
    /\ pc = "for"
    /\ pos < Len(markdown)
    /\ \E k \in 1..Len(ImageRefs(markdown[pos + 1])) :
          InvalidTarget(ImageRefs(markdown[pos + 1])[k].url)

RewriteNoImage(raw) == convert_list(convert_header(convert_link(convert_emphasis(raw))))

RECURSIVE SomeIndexOutside(_, _, _)
SomeIndexOutside(lines_, path, level) ==
    IF path = <<>> THEN FALSE
    ELSE LET groups == divide_into_sections(lines_, level)
             i == Head(path)
         IN  IF i < 0 \/ i >= Len(groups) THEN TRUE
             ELSE SomeIndexOutside(groups[i + 1], Tail(path), level + 1)

\* C7: section(path) raises IndexError and returns no lines whenever some index of
\* the path lies outside 0 .. (number of groups at that level) - 1, negative
\* indices included.
C7_OutOfRangeRaises ==
    (op.name = "section" /\ SomeIndexOutside(content, op.path, 0))
        => ret.raised = "IndexError" /\ ret.value = <<>>

\* a heading line of level n in the target markup: hn. text
IsHeadingLine(l, n) == StartsWith(l, <<"h">> \o PyInt(n) \o <<".", " ">>)

\* C8: divide_into_sections(lines, L) returns 1 + (number of heading lines of level
\* L+1) groups; group 0 holds the lines before the first such heading, every later
\* group begins with its heading line, and the groups concatenate to the input.
C8_GroupsFollowHeadings ==
    op.name = "divide_into_sections" =>
        LET groups == ret.value
            heads == {i \in 1..Len(content) : IsHeadingLine(content[i], op.level + 1)}
        IN  /\ Len(groups) = 1 + Cardinality(heads)
            /\ groups[1] = IF heads = {} THEN content ELSE Take(content, SetMin(heads) - 1)
            /\ \A g \in 2..Len(groups) :
                  groups[g] # <<>> /\ IsHeadingLine(groups[g][1], op.level + 1)
            /\ Concat(groups) = content

ImgParts(parts) == {k \in 1..Len(parts) : parts[k].kind = "img"}

IsLocal(url) == ~validators_url(url) /\ url \in ExistingFiles

\* the line with every image form replaced by !basename|width=W!
RECURSIVE WithSizedTokens(_, _)
WithSizedTokens(parts, W) ==
    IF parts = <<>> THEN <<>>
    ELSE (IF Head(parts).kind = "img"
          THEN <<"!">> \o PathName(Head(parts).target)
               \o <<"|", "w", "i", "d", "t", "h", "=">> \o PyInt(W) \o <<"!">>
          ELSE Head(parts).s)
         \o WithSizedTokens(Tail(parts), W)

\* C9: for a line with a local image form and any text before or after it,
\* convert_image with a width W puts the token !basename|width=W! in place of the
\* form and leaves every character outside the form unchanged.
C9_WidthInsideToken ==
    (/\ op.name = "convert_image"
     /\ op.image_width # None
     /\ Cardinality(ImgParts(op.parts)) = 1
     /\ \A k \in ImgParts(op.parts) : IsLocal(op.parts[k].target))
    => ret.value = WithSizedTokens(op.parts, op.image_width)

\* the line with every image form replaced by !url!
RECURSIVE WithUrlTokens(_)
WithUrlTokens(parts) ==
    IF parts = <<>> THEN <<>>
    ELSE (IF Head(parts).kind = "img"
          THEN <<"!">> \o Head(parts).target \o <<"!">>
          ELSE Head(parts).s)
         \o WithUrlTokens(Tail(parts))

\* C10: for a line with one or more image forms whose targets are valid URLs ending
\* in a recognised extension, convert_image replaces each form by !url! of its own
\* target and leaves the text between and around the forms unchanged.
C10_EachUrlImageReplaced ==
    (/\ op.name = "convert_image"
     /\ ImgParts(op.parts) # {}
     /\ \A k \in ImgParts(op.parts) : validators_url(op.parts[k].target))
    => ret.value = WithUrlTokens(op.parts)

LinkIndices(parts) == {k \in 1..Len(parts) : parts[k].kind = "link"}

\* the line with every link form replaced by [label|target]
RECURSIVE WithLinkTokens(_)
WithLinkTokens(parts) ==
    IF parts = <<>> THEN <<>>
    ELSE (IF Head(parts).kind = "link"
          THEN <<"[">> \o Head(parts).alt \o <<"|">> \o Head(parts).target \o <<"]">>
          ELSE Head(parts).s)
         \o WithLinkTokens(Tail(parts))

\* C11: convert_link rewrites every form [label](target) of a line to
\* [label|target] with that form's own label and target, two links on a line
\* included, and leaves the text outside the forms unchanged.
C11_EachLinkRewritten ==
    (op.name = "convert_link" /\ LinkIndices(op.parts) # {})
        => ret.value = WithLinkTokens(op.parts)

\* C12 as stated: for n marker characters, one space and a text, convert_header
\* returns hn. followed by the text exactly as given; a line that does not begin
\* with the marker is returned unchanged.
C12_HeaderKeepsTextVerbatim ==
    op.name = "convert_header" =>
        IF op.n = 0 THEN ret.value = op.text
        ELSE ret.value = <<"h">> \o PyInt(op.n) \o <<".", " ">> \o op.lead \o op.body

\* C12, amended: for n marker characters, one space and a text, convert_header
\* returns hn. followed by the text without its leading whitespace: the marker run
\* and all the whitespace after it are consumed, marker characters later in the
\* line are kept; a line that does not begin with the marker is returned unchanged.
C12_HeaderDropsLeadingWhitespace ==
    op.name = "convert_header" =>
        IF op.n = 0 THEN ret.value = op.text
        ELSE ret.value = <<"h">> \o PyInt(op.n) \o <<".", " ">> \o op.body

\* "##  H ##" (two spaces) gives "h2. H ##"
C12_Witness ==
    /\ op.name = "convert_header"
    /\ op.text = <<"#", "#", " ", " ", "H", " ", "#", "#">>
    /\ ret.value = <<"h", "2", ".", " ", "H", " ", "#", "#">>

\* C13: for an ordered list line "n. text" with the ordinal n at the start of the
\* line, convert_list returns n marker characters #, a space and the text: the
\* value of the ordinal sets the depth.
C13_OrdinalSetsDepth ==
    (op.name = "convert_list" /\ op.ordered)
        => /\ Len(ret.value) = op.n + 1 + Len(op.item)
           /\ \A k \in 1..op.n : ret.value[k] = "#"
           /\ ret.value[op.n + 1] = " "
           /\ SubSeq(ret.value, op.n + 2, Len(ret.value)) = op.item

\* "2. e" gives "## e"
C13_Witness ==
    /\ op.name = "convert_list"
    /\ op.text = <<"2", ".", " ", "e">>
    /\ ret.value = <<"#", "#", " ", "e">>

\* the TOC token of the target markup for the arguments of the call
TocToken(call) ==
    <<"{toc:printable=">> \o PyBool(call.printable) \o <<"|style=">> \o <<"square">>
    \o <<"|maxLevel=">> \o PyInt(4) \o <<"|indent=">> \o <<"5px">>
    \o <<"|minLevel=">> \o PyInt(1) \o <<"|class=">> \o <<"bigpink">>
    \o (IF call.exclude # <<>> THEN <<"|exclude=">> \o call.exclude ELSE <<>>)
    \o <<"|type=">> \o <<"list">> \o <<"|outline=">> \o PyBool(call.outline) \o <<"|">>
    \o (IF call.include # <<>> THEN <<"include=">> \o call.include ELSE <<>>)
    \o <<"}">>

\* C14: for every combination of include and exclude given or not, toc appends one
\* line that is the TOC token: |exclude=re after class= only when exclude is
\* given, and include=re after outline= and exactly one | only when include is
\* given.
C14_TocTokenExact ==
    [][op'.name = "toc" => content' = Append(content, TocToken(op'))]_vars

\* the same for the calls without include
TocExactWithoutInclude ==
    [][(op'.name = "toc" /\ op'.include = <<>>)
          => content' = Append(content, TocToken(op'))]_vars

\* the run of lines_ that starts at the heading line a of level k and ends just
\* before the next heading line of level k or shallower, or at the end
SectionFrom(lines_, a, k) ==
    LET later == {b \in (a + 1)..Len(lines_) :
                     \E n \in 1..k : IsHeadingLine(lines_[b], n)}
    IN  SubSeq(lines_, a, IF later = {} THEN Len(lines_) ELSE SetMin(later) - 1)

IsSection(run, lines_, k) ==
    \E a \in 1..Len(lines_) : IsHeadingLine(lines_[a], k) /\ run = SectionFrom(lines_, a, k)

\* a call of section with a path of indices >= 1 that are all in range
SectionByPath ==
    /\ op.name = "section"
    /\ \A i \in 1..Len(op.path) : op.path[i] >= 1
    /\ ~SomeIndexOutside(content, op.path, 0)

\* C15: for a path of k indices, all >= 1 and in range, section returns a
\* contiguous run of the Document that starts with a heading line of level k and
\* ends just before the next heading line of level k or shallower, or at the end.
C15_SectionIsHeadingRun ==
    SectionByPath => ret.raised = "" /\ IsSection(ret.value, content, Len(op.path))

\* a line that begins like a heading of some level without being one
IsPseudoHeading(l) ==
    \E n \in 1..(MaxLevel + 1) : StartsWith(l, <<"h">> \o PyInt(n)) /\ ~IsHeadingLine(l, n)

\* the same for Documents in which only heading lines begin like headings
SectionIsHeadingRunOnProperLines ==
    (SectionByPath /\ \A i \in 1..Len(content) : ~IsPseudoHeading(content[i]))
        => ret.raised = "" /\ IsSection(ret.value, content, Len(op.path))

\* C16: for every line handled outside a code block, the line rewritten by the
\* emphasis, image, link, header and list rules begins with the fence marker
\* exactly if the input line does, so the for loop enters the while loop of the
\* code block exactly for the input lines that begin with the fence marker.
C16_FenceTransparent ==
    [][(pc = "for" /\ pos < Len(markdown))
          => LET raw == markdown[pos + 1] IN
             /\ is_block_code(Rewrite(raw, image_width).text) <=> is_block_code(raw)
             /\ pc' # "for" <=> is_block_code(raw)]_vars

\* the same for the lines that do not hold the placeholder word
FenceTransparentWithoutPlaceholder ==
    [][(pc = "for" /\ pos < Len(markdown) /\ ~Contains(markdown[pos + 1], placeholder))
          => LET raw == markdown[pos + 1] IN
             /\ is_block_code(Rewrite(raw, image_width).text) <=> is_block_code(raw)
             /\ pc' # "for" <=> is_block_code(raw)]_vars

=============================================================================
